---- MODULE Spec2Model ----
(***************************************************************************)
(* FindRivals backend: team identifier allocation (generate_team_id,       *)
(* register_team, admin_delete_team) and nearby-opponent discovery         *)
(* (haversine, nearby_teams) from src/main.py, with the Team schema of      *)
(* src/schemas.py.  The document store (database.py: db, create_document,  *)
(* get_documents and the pymongo calls) is not part of the sources and is  *)
(* modelled from the storage contract: a collection is a sequence of       *)
(* documents in insertion order.                                           *)
(*                                                                         *)
(* Numbers.  Coordinates are integers in microdegrees (1e-6 degree),       *)
(* a distance is its whole decimetres (1e-4 km) with a flag telling        *)
(* whether it is exactly that many, a reported distance_km is an integer   *)
(* number of hundredths of a kilometre.  A Python float is a tagged        *)
(* record so that None, inf and nan are values of their own.               *)
(*                                                                         *)
(* Opaque Team fields (team_name, location_name, contact_number) take no   *)
(* part in any decision modelled here and are left out of the documents.   *)
(***************************************************************************)
EXTENDS Integers, Sequences, FiniteSets, TLC

VARIABLES
    db,       \* the store handle of database.py: "connected" or "none"
    store,    \* the "team" collection: documents in insertion order
    nextId,   \* the next _id the store generates
    reg,      \* per request handler: the register_team request in flight
    minted,   \* the last identifier generate_team_id returned, with its inputs
    resp,     \* the HTTP status of the last response sent (0: none yet)
    undisturbed, \* history: no team was deleted, no count query raised and no
              \* count query ran while another request sat between its own
              \* count and its insert
    query,    \* the parameters of the last nearby_teams request
    result    \* the body of the last nearby_teams response

vars == <<db, store, nextId, reg, minted, resp, undisturbed, query, result>>

(***************************************************************************)
(* Bounds of the model.                                                    *)
(***************************************************************************)
NumHandlers == 2   \* concurrent request handlers
MaxInserts == 3    \* registrations accepted in one behaviour
MaxCount == 29     \* teams of one sport in a store the allocator is applied to
MaxOther == 1      \* teams of a second sport in such a store
MaxLoaded == 3     \* teams in a store nearby_teams is applied to

(***************************************************************************)
(* Python values.                                                          *)
(***************************************************************************)
None == [k |-> "none", v |-> 0]
Inf == [k |-> "inf", v |-> 0]
NaN == [k |-> "nan", v |-> 0]
Num(n) == [k |-> "num", v |-> n]

Digit(d) ==
    CASE d = 0 -> "0" [] d = 1 -> "1" [] d = 2 -> "2" [] d = 3 -> "3"
      [] d = 4 -> "4" [] d = 5 -> "5" [] d = 6 -> "6" [] d = 7 -> "7"
      [] d = 8 -> "8" [] d = 9 -> "9"

\* str(n) / f"{n}" of a non-negative int: its decimal numeral.
RECURSIVE str(_)
str(n) == IF n < 10 THEN Digit(n) ELSE str(n \div 10) \o Digit(n % 10)

(***************************************************************************)
(* schemas.py                                                              *)
(***************************************************************************)
Sport == {"cricket", "football", "kabaddi", "shuttle", "tennis"}
TimeSlot == {"morning", "afternoon", "evening"}
ContactPref == {"call", "text"}

\* Variant: sport declared str instead of the Sport literal.
TeamAcceptsAnySport(payload) ==
    /\ payload.contact_preference \in ContactPref
    /\ \A i \in 1..Len(payload.availability) :
          payload.availability[i] \in TimeSlot

\* Team(...): pydantic validation of the fields register_team passes, the
\* three Literal-constrained ones being sport, contact_preference and the
\* entries of availability.
Team(payload) ==
    /\ payload.sport \in Sport
    /\ payload.contact_preference \in ContactPref
    /\ \A i \in 1..Len(payload.availability) :
          payload.availability[i] \in TimeSlot

(***************************************************************************)
(* The store (database.py, modelled from the storage contract).            *)
(***************************************************************************)
RECURSIVE count_documents(_, _)
count_documents(teams, sport) ==
    IF teams = <<>> THEN 0
    ELSE (IF Head(teams).sport = sport THEN 1 ELSE 0)
         + count_documents(Tail(teams), sport)

\* find_one({"players": {"$in": players}}): is there such a document
find_one_player(teams, players) ==
    \E i \in 1..Len(teams) : teams[i].players \cap players # {}

\* insert_one of the validated team; the store generates the _id
create_document(teams, id, payload, team_id) ==
    Append(teams, [_id |-> id,
                   team_id |-> team_id,
                   sport |-> payload.sport,
                   players |-> payload.players,
                   latitude |-> payload.latitude,
                   longitude |-> payload.longitude,
                   contact_preference |-> payload.contact_preference,
                   availability |-> payload.availability])

\* find(q): the documents matching q, in insertion order; sport "" is no filter
get_documents(teams, sport) ==
    SelectSeq(teams, LAMBDA t : sport = "" \/ t.sport = sport)

\* delete_one({"team_id": team_id}): the first matching document goes
delete_one(teams, team_id) ==
    LET hits == {i \in 1..Len(teams) : teams[i].team_id = team_id}
    IN  IF hits = {} THEN teams
        ELSE LET i == CHOOSE j \in hits : \A m \in hits : j <= m
             IN  SubSeq(teams, 1, i - 1) \o SubSeq(teams, i + 1, Len(teams))

(***************************************************************************)
(* main.py: the identifier allocator.                                      *)
(***************************************************************************)
SPORT_PREFIX ==
    [cricket |-> "CRK", football |-> "FTB", kabaddi |-> "KBD",
     shuttle |-> "SHT", tennis |-> "TNS"]

\* SPORT_PREFIX.get(sport, "TMP")
PrefixOf(sport) ==
    IF sport \in DOMAIN SPORT_PREFIX THEN SPORT_PREFIX[sport] ELSE "TMP"

\* Variant: the suffix counts the new team too.
generate_team_id_suffixOffByOne(sport, dbh, teams, outcome) ==
    LET count == IF dbh = "none" \/ outcome = "error" THEN 0
                 ELSE count_documents(teams, sport)
    IN  PrefixOf(sport) \o "-" \o str(101 + count)

\* Variant: a failed count query is answered from a stale count instead of 0.
generate_team_id_failureNotAbsorbed(sport, dbh, teams, outcome) ==
    LET count == IF dbh = "none" THEN 0 ELSE count_documents(teams, sport)
    IN  PrefixOf(sport) \o "-" \o str(100 + count)

\* Variant: the count query is not scoped to the sport.
generate_team_id_countsAllSports(sport, dbh, teams, outcome) ==
    LET count == IF dbh = "none" \/ outcome = "error" THEN 0 ELSE Len(teams)
    IN  PrefixOf(sport) \o "-" \o str(100 + count)

\* outcome: "ok" when line 38 yields the count, "error" when it raises (the
\* query fails, or the handle itself refuses the truth test of `if db`)
generate_team_id(sport, dbh, teams, outcome) ==
    LET prefix == PrefixOf(sport)
        count == IF dbh = "none" \/ outcome = "error" THEN 0
                 ELSE count_documents(teams, sport)
        suffix == 100 + count
    IN  prefix \o "-" \o str(suffix)

(***************************************************************************)
(* main.py: register_team, one action per store request it makes.          *)
(***************************************************************************)
Handlers == 1..NumHandlers
Idle == [pc |-> "idle",
         payload |-> [sport |-> "", players |-> {}, latitude |-> None,
                      longitude |-> None, contact_preference |-> "",
                      availability |-> <<>>],
         team_id |-> ""]

RegSports == {"cricket", "football", "unknownsport"}
RegPlayers == {{}, {"asha"}}
RegAvailability == {<<"morning">>, <<"midnight">>}
Payloads ==
    [sport : RegSports, players : RegPlayers, latitude : {None},
     longitude : {None}, contact_preference : {"call"},
     availability : RegAvailability]

InFlight == Cardinality({h \in Handlers : reg[h].pc # "idle"})

\* another request sits between its count query and its insert
OtherMinted(h) == \E g \in Handlers \ {h} : reg[g].pc = "minted"

\* lines 110-113: the soft player check.  With players given, an absent store
\* handle fails on db["team"] (500) and a player already on a team gets the 400.
RegStart(h, p) ==
    /\ reg[h].pc = "idle"
    /\ nextId + InFlight <= MaxInserts
    /\ IF p.players # {} /\ db = "none"
       THEN resp' = 500 /\ UNCHANGED reg
       ELSE IF p.players # {} /\ find_one_player(store, p.players)
       THEN resp' = 400 /\ UNCHANGED reg
       ELSE /\ reg' = [reg EXCEPT ![h] = [pc |-> "checked", payload |-> p,
                                          team_id |-> ""]]
            /\ UNCHANGED resp
    /\ undisturbed' = (undisturbed /\ ~OtherMinted(h))
    /\ UNCHANGED <<db, store, nextId, minted, query, result>>

\* line 115: generate_team_id, whose count query may raise
RegCount(h) ==
    /\ reg[h].pc = "checked"
    /\ \E outcome \in {"ok", "error"} :
          /\ reg' = [reg EXCEPT
                        ![h].pc = "minted",
                        ![h].team_id = generate_team_id(reg[h].payload.sport,
                                                        db, store, outcome)]
          /\ undisturbed' = (undisturbed /\ ~OtherMinted(h)
                                          /\ outcome = "ok")
    /\ UNCHANGED <<db, store, nextId, minted, resp, query, result>>

\* lines 116-129: Team validation, then the insert (which raises on an absent
\* store handle); either failure ends the request with a 500
RegInsert(h) ==
    /\ reg[h].pc = "minted"
    /\ IF Team(reg[h].payload) /\ db # "none"
       THEN /\ store' = create_document(store, nextId, reg[h].payload,
                                        reg[h].team_id)
            /\ nextId' = nextId + 1
            /\ resp' = 200
       ELSE /\ resp' = 500
            /\ UNCHANGED <<store, nextId>>
    /\ reg' = [reg EXCEPT ![h] = Idle]
    /\ undisturbed' = (undisturbed /\ ~OtherMinted(h))
    /\ UNCHANGED <<db, minted, query, result>>

\* lines 274-277: delete_one by team_id
admin_delete_team(team_id) ==
    /\ IF db = "none"
       THEN resp' = 500 /\ UNCHANGED store
       ELSE resp' = 200 /\ store' = delete_one(store, team_id)
    /\ undisturbed' = (undisturbed /\ store' = store)
    /\ UNCHANGED <<db, nextId, reg, minted, query, result>>

NoMint == [sport |-> "", outcome |-> "", team_id |-> ""]
NoQuery == [sport |-> "", center_lat |-> None, center_lon |-> None,
            range_km |-> 0]

Init ==
    /\ db \in {"connected", "none"}
    /\ store = <<>>
    /\ nextId = 1
    /\ reg = [h \in Handlers |-> Idle]
    /\ minted = NoMint
    /\ resp = 0
    /\ undisturbed = TRUE
    /\ query = NoQuery
    /\ result = <<>>

\* "TMP-100" is an identifier no stored team carries
DeleteIds == {store[i].team_id : i \in 1..Len(store)} \cup {"TMP-100"}

Next ==
    \/ \E h \in Handlers, p \in Payloads : RegStart(h, p)
    \/ \E h \in Handlers : RegCount(h)
    \/ \E h \in Handlers : RegInsert(h)
    \/ \E id \in DeleteIds : admin_delete_team(id)

Spec == Init /\ [][Next]_vars

AllocSports == Sport \cup {"unknownsport"}

(***************************************************************************)
(* The allocator applied to a store.  The stores are those registration    *)
(* one request at a time builds: up to MaxCount teams of one sport, then   *)
(* up to MaxOther of another.                                              *)
(***************************************************************************)
RECURSIVE RegisterAll(_, _)
RegisterAll(ps, teams) ==
    IF ps = <<>> THEN teams
    ELSE RegisterAll(Tail(ps),
                     create_document(teams, Len(teams) + 1, Head(ps),
                         generate_team_id(Head(ps).sport, "connected", teams,
                                          "ok")))

PlainPayload(sport, lat, lon) ==
    [sport |-> sport, players |-> {}, latitude |-> lat, longitude |-> lon,
     contact_preference |-> "call", availability |-> <<"morning">>]

AllocStores ==
    {RegisterAll([i \in 1..(n + m) |->
                     PlainPayload(IF i <= n THEN s1 ELSE s2, None, None)],
                 <<>>) :
        s1 \in Sport, s2 \in Sport, n \in 0..MaxCount, m \in 0..MaxOther}

InitAlloc ==
    /\ db \in {"connected", "none"}
    /\ store \in IF db = "none" THEN {<<>>} ELSE AllocStores
    /\ nextId = Len(store) + 1
    /\ reg = [h \in Handlers |-> Idle]
    /\ minted = NoMint
    /\ resp = 0
    /\ undisturbed = TRUE
    /\ query = NoQuery
    /\ result = <<>>

\* lines 34-42 applied to the store, the count query answering or raising
GenerateTeamId(sport, outcome) ==
    /\ minted' = [sport |-> sport, outcome |-> outcome,
                  team_id |-> generate_team_id(sport, db, store, outcome)]
    /\ UNCHANGED <<db, store, nextId, reg, resp, undisturbed, query, result>>

NextAlloc ==
    \E sport \in AllocSports, outcome \in {"ok", "error"} :
        GenerateTeamId(sport, outcome)

SpecAlloc == InitAlloc /\ [][NextAlloc]_vars

(***************************************************************************)
(* main.py: haversine.                                                     *)
(*                                                                         *)
(* The float expression of lines 47-52 has a closed form on the points the *)
(* model uses: for two points on one meridian, or two points on the        *)
(* equator, a = sin(d/2)^2 for the difference d of the two coordinates, so *)
(* c is the angle |d| and the result is R * c, that is 6371 * pi / 180 =   *)
(* 111.19492664455873... km per degree.  The float evaluation agrees with  *)
(* this, decimetre for decimetre, where                                    *)
(*   - the subtraction of lines 48-49 is exact: one of the two coordinates *)
(*     is 0, or both are doubles without rounding (whole multiples of      *)
(*     1/64 degree), and                                                   *)
(*   - the arc is at most MaxArc: nearer to the antipode asin(sqrt(a))     *)
(*     loses the last microdegrees.                                        *)
(* haversine is defined on these pairs only (HaversineDefined); every      *)
(* other pair of finite points lies outside the model.                     *)
(***************************************************************************)
Raise == [k |-> "raise", v |-> 0]

\* the decimal digits of R * pi / 180 / 100 = 1.119492664455873734... (R =
\* 6371.0 km): decimetres per microdegree
ArcDigits == <<1, 1, 1, 1, 9, 4, 9, 2, 6, 6, 4, 4, 5, 5, 8, 7, 3, 7, 3>>

\* <<q, e>> for d * 0.ArcDigits[i]ArcDigits[i+1]... scaled by ten: q its whole
\* part, e whether nothing was cut off.  One digit at a time, so that no
\* intermediate value leaves 32 bits.
RECURSIVE ArcFrom(_, _)
ArcFrom(d, i) ==
    IF i > Len(ArcDigits) THEN <<0, TRUE>>
    ELSE LET rest == ArcFrom(d, i + 1)
         IN  <<d * ArcDigits[i] + rest[1] \div 10,
               rest[2] /\ rest[1] % 10 = 0>>

Abs(x) == IF x < 0 THEN -x ELSE x

\* the longest arc, in microdegrees, the closed form is used for (179
\* degrees)
MaxArc == 179000000

\* the distance along an arc of d microdegrees: its whole decimetres, and
\* whether it is exactly that many
Arc(d) ==
    LET a == ArcFrom(d, 1)
    IN  [k |-> "num", v |-> a[1], exact |-> a[2]]

\* x / 1e6 degrees is a double as it stands: a whole multiple of 1/64 degree
ExactDouble(x) == x % 15625 = 0

\* y - x of lines 48-49 is the double nearest (y - x) / 1e6 degrees
ExactDifference(x, y) ==
    x = 0 \/ y = 0 \/ (ExactDouble(x) /\ ExactDouble(y))

\* two finite points on one meridian: dlon = 0, a = sin(dlat/2)^2
OnMeridian(lat1, lon1, lat2, lon2) ==
    /\ lon1.v = lon2.v
    /\ ExactDifference(lat1.v, lat2.v)
    /\ Abs(lat2.v - lat1.v) <= MaxArc

\* two finite points on the equator: dlat = 0, cos(0) = 1, a = sin(dlon/2)^2
OnEquator(lat1, lon1, lat2, lon2) ==
    /\ lat1.v = 0 /\ lat2.v = 0
    /\ ExactDifference(lon1.v, lon2.v)
    /\ Abs(lon2.v - lon1.v) <= MaxArc

\* the pairs haversine is defined on
HaversineDefined(lat1, lon1, lat2, lon2) ==
    \/ {lat1.k, lon1.k, lat2.k, lon2.k} # {"num"}
    \/ OnMeridian(lat1, lon1, lat2, lon2)
    \/ OnEquator(lat1, lon1, lat2, lon2)

\* A number, nan, or Raise for the exception Python raises: TypeError on None
\* (lat2 - lat1, lon2 - lon1), ValueError from sin/cos of an infinite angle.
\* inf - inf is nan, which sin, cos, sqrt and asin pass through.
haversine(lat1, lon1, lat2, lon2) ==
    IF "none" \in {lat1.k, lon1.k, lat2.k, lon2.k} THEN Raise
    ELSE IF lat1.k = "inf" \/ lat2.k = "inf" THEN Raise
    ELSE IF {lon1.k, lon2.k} = {"inf", "num"} THEN Raise
    ELSE IF {lat1.k, lon1.k, lat2.k, lon2.k} # {"num"} THEN NaN
    ELSE CASE OnMeridian(lat1, lon1, lat2, lon2) ->
                  Arc(Abs(lat2.v - lat1.v))
           [] ~OnMeridian(lat1, lon1, lat2, lon2)
                  /\ OnEquator(lat1, lon1, lat2, lon2) ->
                  Arc(Abs(lon2.v - lon1.v))

(***************************************************************************)
(* main.py: nearby_teams.                                                  *)
(***************************************************************************)
\* round(dist, 2): the nearest hundredth of a kilometre, an exact tie going
\* to the even one
round2(dist) ==
    IF dist.exact /\ dist.v % 100 = 50
    THEN LET q == dist.v \div 100 IN IF q % 2 = 0 THEN q ELSE q + 1
    ELSE (dist.v + 50) \div 100

\* dist <= range_km, range_km in whole kilometres
WithinKm(dist, range_km) ==
    \/ dist.v < range_km * 10000
    \/ dist.v = range_km * 10000 /\ dist.exact

\* line 206: t["id"] = str(t.pop("_id", ""))
WithId(t) ==
    [f \in (DOMAIN t \ {"_id"}) \cup {"id"} |->
        IF f = "id" THEN str(t._id) ELSE t[f]]

\* t["distance_km"] = ...
WithDistance(t, d) ==
    [f \in DOMAIN t \cup {"distance_km"} |->
        IF f = "distance_km" THEN d ELSE t[f]]

\* Variant: a team without a distance sorts behind every measured one.
SortKey_unknownLast(x) ==
    IF "distance_km" \in DOMAIN x THEN x.distance_km ELSE 1000000000

\* x.get("distance_km", 0)
SortKey(x) == IF "distance_km" \in DOMAIN x THEN x.distance_km ELSE 0

\* Variant: the range test is missing.
Visit_ignoresRange(t, center_lat, center_lon, range_km) ==
    LET lat == t.latitude
        lon == t.longitude
    IN  IF center_lat = None \/ center_lon = None \/ lat = None \/ lon = None
        THEN <<WithId(t)>>
        ELSE LET dist == haversine(center_lat, center_lon, lat, lon)
             IN  CASE dist.k = "raise" -> <<WithId(t)>>
                   [] dist.k = "nan" -> <<>>
                   [] dist.k = "num" ->
                        <<WithDistance(WithId(t), round2(dist))>>

\* lines 206-218 for one team: what the loop body appends to result
Visit(t, center_lat, center_lon, range_km) ==
    LET u == WithId(t)
        lat == t.latitude
        lon == t.longitude
    IN  IF center_lat = None \/ center_lon = None \/ lat = None \/ lon = None
        THEN <<u>>
        ELSE LET dist == haversine(center_lat, center_lon, lat, lon)
             IN  CASE dist.k = "raise" -> <<u>>
                   [] dist.k = "nan" -> <<>>
                   [] dist.k = "num" ->
                        IF WithinKm(dist, range_km)
                        THEN <<WithDistance(u, round2(dist))>>
                        ELSE <<>>

\* lines 204-218: the loop
RECURSIVE Collect(_, _, _, _)
Collect(teams, center_lat, center_lon, range_km) ==
    IF teams = <<>> THEN <<>>
    ELSE Visit(Head(teams), center_lat, center_lon, range_km)
         \o Collect(Tail(teams), center_lat, center_lon, range_km)

\* Variant: a sort that is not stable, placing x before the elements of equal
\* key.
RECURSIVE InsertSorted_beforeEqual(_, _)
InsertSorted_beforeEqual(xs, x) ==
    IF xs = <<>> THEN <<x>>
    ELSE IF SortKey(xs[Len(xs)]) < SortKey(x) THEN Append(xs, x)
    ELSE Append(InsertSorted_beforeEqual(SubSeq(xs, 1, Len(xs) - 1), x),
                xs[Len(xs)])

\* list.sort(key=...): stable, ascending.  Insert x behind every element
\* whose key is not greater.
RECURSIVE InsertSorted(_, _)
InsertSorted(xs, x) ==
    IF xs = <<>> THEN <<x>>
    ELSE IF SortKey(xs[Len(xs)]) <= SortKey(x) THEN Append(xs, x)
    ELSE Append(InsertSorted(SubSeq(xs, 1, Len(xs) - 1), x), xs[Len(xs)])

RECURSIVE sort(_)
sort(xs) ==
    IF xs = <<>> THEN <<>>
    ELSE InsertSorted(sort(SubSeq(xs, 1, Len(xs) - 1)), xs[Len(xs)])

\* lines 202-221 once the parameters are accepted and the store answers
NearbyResult(teams, sport, center_lat, center_lon, range_km) ==
    sort(Collect(get_documents(teams, sport), center_lat, center_lon,
                 range_km))

\* lines 195-221: Query(10, ge=1, le=100) rejects a range outside [1, 100]
\* (422); get_documents raises on an absent store handle (500)
nearby_teams(sport, center_lat, center_lon, range_km) ==
    /\ query' = [sport |-> sport, center_lat |-> center_lat,
                 center_lon |-> center_lon, range_km |-> range_km]
    /\ IF range_km < 1 \/ range_km > 100
       THEN resp' = 422 /\ result' = <<>>
       ELSE IF db = "none"
       THEN resp' = 500 /\ result' = <<>>
       ELSE /\ resp' = 200
            /\ result' = NearbyResult(store, sport, center_lat, center_lon,
                                      range_km)
    /\ UNCHANGED <<db, store, nextId, reg, minted, undisturbed>>

\* Team locations: none, one coordinate only, the origin, a point a metre
\* north of it, the last microdegree within 1 km to the west (0.99997 km),
\* the first one beyond 1 km to the north (1.00009 km), a point 1/64 degree
\* north (1.7374 km), an infinite and a nan latitude.
Points ==
    {<<None, None>>, <<Num(0), None>>, <<None, Num(0)>>, <<Num(0), Num(0)>>,
     <<Num(10), Num(0)>>, <<Num(0), Num(-8993)>>,
     <<Num(8994), Num(0)>>, <<Num(15625), Num(0)>>, <<Inf, Num(0)>>,
     <<NaN, Num(0)>>}

NearPayloads ==
    {PlainPayload("cricket", pt[1], pt[2]) : pt \in Points}
        \cup {PlainPayload("football", Num(0), Num(0))}

NearStores ==
    UNION {{RegisterAll(ps, <<>>) : ps \in [1..n -> NearPayloads]} :
              n \in 0..MaxLoaded}

InitNearby ==
    /\ db \in {"connected", "none"}
    /\ store \in IF db = "none" THEN {<<>>} ELSE NearStores
    /\ nextId = Len(store) + 1
    /\ reg = [h \in Handlers |-> Idle]
    /\ minted = NoMint
    /\ resp = 0
    /\ undisturbed = TRUE
    /\ query = NoQuery
    /\ result = <<>>

QuerySports == {"", "cricket"}
\* <<center_lat, center_lon>>: absent, half given, the origin, 1/64 degree
\* north of it, an infinite latitude
QueryPoints ==
    {<<None, None>>, <<None, Num(0)>>, <<Num(0), None>>, <<Num(0), Num(0)>>,
     <<Num(15625), Num(0)>>, <<Inf, Num(0)>>}
QueryRanges == {0, 1, 10, 101}

\* every distance the query computes lies where haversine is defined
Computable(teams, center_lat, center_lon) ==
    \A i \in 1..Len(teams) :
        \/ center_lat = None \/ center_lon = None
        \/ teams[i].latitude = None \/ teams[i].longitude = None
        \/ HaversineDefined(center_lat, center_lon, teams[i].latitude,
                            teams[i].longitude)

QueryCenters ==
    {c \in QueryPoints : Computable(store, c[1], c[2])}

NextNearby ==
    \E sport \in QuerySports, center \in QueryCenters,
       range_km \in QueryRanges :
        /\ resp = 0
        /\ nearby_teams(sport, center[1], center[2], range_km)

SpecNearby == InitNearby /\ [][NextNearby]_vars

(***************************************************************************)
(* Properties.  The expected values are written out independently of the   *)
(* definitions above: the prefix table case by case, the numeral digit by  *)
(* digit, a distance test in microdegrees of arc.                          *)
(***************************************************************************)
ExpectedPrefix(sport) ==
    CASE sport = "cricket" -> "CRK"
      [] sport = "football" -> "FTB"
      [] sport = "kabaddi" -> "KBD"
      [] sport = "shuttle" -> "SHT"
      [] sport = "tennis" -> "TNS"
      [] OTHER -> "TMP"

\* the numeral of n for 100 <= n <= 999
Numeral3(n) == Digit(n \div 100) \o Digit((n \div 10) % 10) \o Digit(n % 10)

ExpectedId(sport, n) == ExpectedPrefix(sport) \o "-" \o Numeral3(n)

CountOf(sport) == Cardinality({i \in 1..Len(store) : store[i].sport = sport})

\* C1: no two stored team documents carry the same team_id.
UniqueTeamIds ==
    \A i, j \in 1..Len(store) : i # j => store[i].team_id # store[j].team_id

\* C2: when the count query answers, generate_team_id(s) is the prefix of s
\* (TMP for a sport outside the table), a dash and 100 plus the number of
\* stored teams of sport s.
AllocIdIsPrefixAndCount ==
    (minted # NoMint /\ minted.outcome = "ok") =>
        minted.team_id = ExpectedId(minted.sport, 100 + CountOf(minted.sport))

AllocCricket29 ==
    /\ CountOf("cricket") = 29
    /\ minted = [sport |-> "cricket", outcome |-> "ok", team_id |-> "CRK-129"]

\* C3: when the count query raises, or there is no store handle, the
\* identifier is the sport's prefix with 100, whatever the store holds.
CountFailureGivesHundred ==
    (minted # NoMint /\ (minted.outcome = "error" \/ db = "none")) =>
        minted.team_id = ExpectedPrefix(minted.sport) \o "-100"

CountFailureWithTeamsStored ==
    /\ minted.outcome = "error"
    /\ minted.sport = "football"
    /\ CountOf("football") >= 2
    /\ minted.team_id = "FTB-100"

\* C9: as long as no team was deleted, no count query raised and no step of
\* another registration fell between a request's count query and its insert,
\* the k-th stored team of a sport carries <prefix>-<99 + k>, and all stored
\* identifiers differ.
SequentialIdsCountUp ==
    undisturbed =>
        /\ \A i \in 1..Len(store) :
              store[i].team_id =
                  ExpectedId(store[i].sport,
                             99 + Cardinality({j \in 1..i :
                                        store[j].sport = store[i].sport}))
        /\ \A i, j \in 1..Len(store) :
              i # j => store[i].team_id # store[j].team_id

SecondCricketAfterFootball ==
    /\ undisturbed
    /\ Len(store) = 3
    /\ store[1].team_id = "CRK-100"
    /\ store[2].team_id = "FTB-100"
    /\ store[3].team_id = "CRK-101"

FiveSports == {"cricket", "football", "kabaddi", "shuttle", "tennis"}

StoredIdHasOwnPrefix ==
    \A i \in 1..Len(store) :
        /\ store[i].sport \in FiveSports
        /\ \E n \in 100..199 :
              store[i].team_id = ExpectedId(store[i].sport, n)

UnknownSportMintsTmp ==
    \A h \in Handlers :
        (reg[h].pc = "minted" /\ reg[h].payload.sport \notin FiveSports) =>
            reg[h].team_id = "TMP-100"

UnknownSportRejected ==
    \A h \in Handlers :
        (/\ reg[h].pc = "minted"
         /\ reg[h].payload.sport \notin FiveSports
         /\ reg'[h].pc = "idle") => (store' = store /\ resp' = 500)

\* C10: every stored team carries an identifier made of its own sport's
\* prefix, a dash and a number from 100 up; a registration with a sport
\* outside the enumeration mints TMP-100 and is then rejected by the Team
\* validation, leaving the store as it was.
StoredIdsCarrySportPrefix ==
    /\ [](StoredIdHasOwnPrefix /\ UnknownSportMintsTmp)
    /\ [][UnknownSportRejected]_vars

UnknownSportAboutToBeTurnedAway ==
    /\ db = "connected"
    /\ Len(store) >= 1
    /\ \E h \in Handlers :
          /\ reg[h].pc = "minted"
          /\ reg[h].payload.sport = "unknownsport"
          /\ reg[h].payload.availability = <<"morning">>
          /\ reg[h].team_id = "TMP-100"

(***************************************************************************)
(* Properties of nearby_teams, read off the last response.                 *)
(***************************************************************************)
Answered == resp = 200
CenterGiven == query.center_lat # None /\ query.center_lon # None
Loaded == SelectSeq(store, LAMBDA t : query.sport \in {"", t.sport})
HasDistance(x) == "distance_km" \in DOMAIN x
InResult(t) == \E j \in 1..Len(result) : result[j].id = str(t._id)
EntryOf(t) == result[CHOOSE j \in 1..Len(result) : result[j].id = str(t._id)]
PosLoaded(x) == CHOOSE p \in 1..Len(Loaded) : str(Loaded[p]._id) = x.id

NoUsableLocation(t) == t.latitude = None \/ t.longitude = None

\* the arc between a located team and the centre, in microdegrees
DeltaMicro(t) ==
    Abs(t.latitude.v - query.center_lat.v)
        + Abs(t.longitude.v - query.center_lon.v)

\* within range: Python's dist <= range_km, one kilometre being 8993.216
\* microdegrees of arc
WithinRange(t) ==
    /\ {t.latitude.k, t.longitude.k, query.center_lat.k, query.center_lon.k}
           = {"num"}
    /\ DeltaMicro(t) <= (query.range_km * 8993216) \div 1000

\* the distance cannot be computed: an infinite latitude on either side, or
\* an infinite longitude on one side only
DistanceFails(t) ==
    /\ ~NoUsableLocation(t)
    /\ CenterGiven
    /\ \/ "inf" \in {t.latitude.k, query.center_lat.k}
       \/ {t.longitude.k, query.center_lon.k} = {"inf", "num"}

\* C4 as stated: with a centre, a loaded team is returned exactly when it has
\* no usable location or lies within range_km.
IncludedIffUnlocatedOrInRange ==
    (Answered /\ CenterGiven) =>
        \A p \in 1..Len(Loaded) :
            InResult(Loaded[p]) <=>
                (NoUsableLocation(Loaded[p]) \/ WithinRange(Loaded[p]))

\* C4, amended: with a centre, a loaded team is returned exactly when it has
\* no usable location, or its distance cannot be computed, or it lies within
\* range_km.
IncludedIffUnlocatedFailedOrInRange ==
    (Answered /\ CenterGiven) =>
        \A p \in 1..Len(Loaded) :
            InResult(Loaded[p]) <=>
                \/ NoUsableLocation(Loaded[p])
                \/ DistanceFails(Loaded[p])
                \/ WithinRange(Loaded[p])

HalfLocatedKeptFarDropped ==
    /\ Answered
    /\ query.center_lat = Num(0) /\ query.center_lon = Num(0)
    /\ query.range_km = 1
    /\ \E a, b, c \in 1..Len(Loaded) :
          /\ Loaded[a].latitude = Num(0) /\ Loaded[a].longitude = None
          /\ InResult(Loaded[a]) /\ ~HasDistance(EntryOf(Loaded[a]))
          /\ Loaded[b].latitude = Num(8994) /\ ~InResult(Loaded[b])
          /\ Loaded[c].longitude = Num(-8993) /\ InResult(Loaded[c])
          /\ EntryOf(Loaded[c]).distance_km = 100

\* C5: without a centre every loaded team is returned, in the order loaded,
\* with no distance.
NoCenterReturnsAllInOrder ==
    (Answered /\ ~CenterGiven) =>
        /\ Len(result) = Len(Loaded)
        /\ \A j \in 1..Len(result) :
              /\ result[j].id = str(Loaded[j]._id)
              /\ result[j].team_id = Loaded[j].team_id
              /\ ~HasDistance(result[j])

NoCenterThreeTeams ==
    /\ Answered
    /\ query.center_lat = None /\ query.center_lon = Num(0)
    /\ query.range_km = 1
    /\ Len(result) = 3
    /\ result[1].latitude = Num(8994)
    /\ result[2].latitude = None
    /\ result[3].latitude = Num(0)

\* C6: of two returned teams with a computed distance, the one strictly
\* nearer to the centre comes first, also when both round to the same
\* distance_km.
RankedByUnroundedDistance ==
    Answered =>
        \A i, j \in 1..Len(result) :
            (i < j /\ HasDistance(result[i]) /\ HasDistance(result[j])) =>
                DeltaMicro(result[i]) <= DeltaMicro(result[j])

\* C7: no team with a distance_km above 0 comes before a team without a
\* distance_km, and teams whose sort key is 0 keep their input order.
UnknownDistanceSortsAsZero ==
    Answered =>
        \A i, j \in 1..Len(result) :
            i < j =>
                /\ ~(/\ HasDistance(result[i])
                     /\ result[i].distance_km > 0
                     /\ ~HasDistance(result[j]))
                /\ ((~HasDistance(result[i]) \/ result[i].distance_km = 0)
                    /\ (~HasDistance(result[j]) \/ result[j].distance_km = 0))
                       => PosLoaded(result[i]) < PosLoaded(result[j])

UnknownMovedAheadOfMeasured ==
    /\ Answered
    /\ Len(result) = 3
    /\ HasDistance(result[1]) /\ result[1].distance_km = 0
    /\ ~HasDistance(result[2])
    /\ HasDistance(result[3]) /\ result[3].distance_km > 0
    /\ PosLoaded(result[3]) < PosLoaded(result[2])
    /\ PosLoaded(result[1]) < PosLoaded(result[2])

\* the distance computation does not give a number: a coordinate of the team
\* or of the centre is infinite or nan
DistanceAnomaly(t) ==
    /\ ~NoUsableLocation(t)
    /\ CenterGiven
    /\ {t.latitude.k, t.longitude.k, query.center_lat.k, query.center_lon.k}
           # {"num"}

AnomalousTeams == {p \in 1..Len(Loaded) : DistanceAnomaly(Loaded[p])}

\* C8: a team whose distance computation goes wrong (a coordinate infinite
\* or nan) is returned without a distance_km, and the other teams are
\* filtered, annotated and ordered as they are when that team is not in the
\* store.
AnomalyIsolatedPerTeam ==
    (Answered /\ CenterGiven) =>
        /\ \A p \in AnomalousTeams :
              InResult(Loaded[p]) /\ ~HasDistance(EntryOf(Loaded[p]))
        /\ SelectSeq(result,
                     LAMBDA x : \A p \in AnomalousTeams :
                                   x.id # str(Loaded[p]._id))
             = NearbyResult(SelectSeq(Loaded, LAMBDA t : ~DistanceAnomaly(t)),
                            query.sport, query.center_lat, query.center_lon,
                            query.range_km)
====
